---- MODULE Spec2Model ----
(***************************************************************************)
(* SimpleStorageService (src/src/cloud_storage/aws_storage.py): a facade   *)
(* over one S3 bucket and the local filesystem.  The bucket is a map from  *)
(* the stored keys to their bodies, the filesystem a map from the existing *)
(* paths to their contents.  Every method is one action; the SDK,          *)
(* filesystem, parse and deserialization steps it makes may fail, and the  *)
(* step that fails first (fail) is an input of the action.                 *)
(***************************************************************************)
EXTENDS Integers, Sequences, FiniteSets, TLC

VARIABLES bucket, local, last, prev

vars == <<bucket, local, last, prev>>

(* ------------------------------------------------------------------ *)
(* Bounds and input sets                                               *)
(* ------------------------------------------------------------------ *)

\* Largest number of data rows of a table handed to upload_df_as_csv.
MaxRows == 1

\* Keys are character sequences, so that "starts with" is computed.
KeyA == <<"a">>
KeyADir == <<"a", "/">>
KeyAB == <<"a", "/", "b">>
KeyB == <<"b">>

\* The keys a bucket may hold before the first call.
InitKeys == {KeyA, KeyADir, KeyAB}

\* The keys and prefixes callers ask for.
Prefixes == {KeyA, KeyADir, KeyAB, KeyB}

\* The one local path of the model.
Paths == {<<"p">>}

\* The key uploads are sent to, and the keys a bucket may hold before them.
UploadKeys == {KeyA}
UploadInitKeys == {KeyA, KeyAB}

FolderNames == {KeyA, KeyB}

ModelNames == {KeyA, KeyB}

\* model_dir of load_model: None, the empty string, or a directory name.
None == <<"None">>
ModelDirs == {None, <<>>, KeyA}

(* ------------------------------------------------------------------ *)
(* Object bodies, tables, CSV                                          *)
(* ------------------------------------------------------------------ *)

\* A body is text (a sequence of CSV lines, each a sequence of fields; the
\* zero-byte body is the text without lines) or the bytes of a pickled model.
Text(lines) == <<"text", lines>>
Pickle(m) == <<"pickle", m>>
EmptyBody == Text(<<>>)
AModel == Pickle(<<<<"m">>>>)

\* A table cell is a string or the missing value.
Str(s) == <<"str", s>>
NaN == <<"nan">>
Cells == {Str("x"), Str("na"), NaN}

Header == <<"c">>

RowsUpTo(n) == UNION {[1..k -> [1..Len(Header) -> Cells]] : k \in 0..n}

Tables == {[cols |-> Header, rows |-> r] : r \in RowsUpTo(MaxRows)}

\* pandas writes a missing value as the empty field (na_rep = '').
CellToField(c) == IF c = NaN THEN "" ELSE c[2]

\* DataFrame.to_csv(local_filename, index=False, header=True): the header
\* line, then one line per row.
to_csv(t) ==
    Text(<<t.cols>> \o [i \in 1..Len(t.rows) |->
                          [j \in 1..Len(t.cols) |-> CellToField(t.rows[i][j])]])

\* The tokens pandas.read_csv reads as missing by default; na_values="na"
\* adds to them.
DefaultNaValues ==
    {"", "#N/A", "#N/A N/A", "#NA", "-1.#IND", "-1.#QNAN", "-NaN", "-nan",
     "1.#IND", "1.#QNAN", "<NA>", "N/A", "NA", "NULL", "NaN", "None", "n/a",
     "nan", "null"}

na_values == {"na"}

FieldToCell(f) == IF f \in DefaultNaValues \cup na_values THEN NaN ELSE Str(f)

\* pandas.read_csv(content, na_values="na") on text with a header line.
pd_read_csv(lines) ==
    [cols |-> lines[1],
     rows |-> [i \in 1..(Len(lines) - 1) |->
                 [j \in 1..Len(lines[i + 1]) |-> FieldToCell(lines[i + 1][j])]]]

(* ------------------------------------------------------------------ *)
(* Outcomes                                                            *)
(* ------------------------------------------------------------------ *)

\* A call returns a value, raises MyException (wrapping its cause), or lets an
\* exception of the SDK through unwrapped.  trace lists the requests and
\* library steps the call made, in order.
Return(res, trace) == [out |-> "return", res |-> res, trace |-> trace]
MyException(cause, trace) ==
    [out |-> "MyException", res |-> <<"cause", cause>>, trace |-> trace]
Unwrapped(cause, trace) ==
    [out |-> "raw", res |-> <<"cause", cause>>, trace |-> trace]

(* ------------------------------------------------------------------ *)
(* Listing by prefix                                                   *)
(* ------------------------------------------------------------------ *)

StartsWith(k, p) == Len(p) <= Len(k) /\ SubSeq(k, 1, Len(p)) = p

\* Byte order of the characters used in keys.
Rank(c) == CASE c = "/" -> 47 [] c = "a" -> 97 [] c = "b" -> 98

RECURSIVE KeyLess(_, _)
KeyLess(x, y) ==
    IF x = <<>> THEN y # <<>>
    ELSE IF y = <<>> THEN FALSE
    ELSE IF Rank(Head(x)) # Rank(Head(y)) THEN Rank(Head(x)) < Rank(Head(y))
    ELSE KeyLess(Tail(x), Tail(y))

RECURSIVE SortKeys(_)
SortKeys(S) ==
    IF S = {} THEN <<>>
    ELSE LET m == CHOOSE k \in S : \A j \in S \ {k} : KeyLess(k, j)
         IN <<m>> \o SortKeys(S \ {m})

\* bucket.objects.filter(Prefix=p): the stored keys that start with p, in the
\* order S3 lists them.
objects_filter(b, p) == SortKeys({k \in DOMAIN b : StartsWith(k, p)})

\* An object reference (ObjectSummary): it names a key and holds no body.
Ref(k) == <<"ref", k>>

TheBucket == <<"bkt">>
BucketNames == {TheBucket, None}

NoRequest == <<>>

(* ------------------------------------------------------------------ *)
(* The methods, as functions of the bucket b and the filesystem l      *)
(* ------------------------------------------------------------------ *)

\* s3_resource.Bucket(bucket_name) builds a handle without a request; the
\* resource constructor rejects a missing identifier.
get_bucket(bucket_name) ==
    IF bucket_name = None THEN MyException("ValueError", NoRequest)
    ELSE Return(<<"Bucket", bucket_name>>, NoRequest)

\* Mutant: asks for more than one match.
s3_key_path_available_two(b, bucket_name, s3_key, fail) ==
    LET bkt == get_bucket(bucket_name)
        t == <<<<"list", s3_key>>>>
    IN IF bkt.out # "return" THEN MyException("MyException", bkt.trace)
       ELSE IF fail = "list" THEN MyException("ClientError", t)
       ELSE Return(<<"bool", Len(objects_filter(b, s3_key)) > 1>>, t)

s3_key_path_available(b, bucket_name, s3_key, fail) ==
    LET bkt == get_bucket(bucket_name)
        t == <<<<"list", s3_key>>>>
    IN IF bkt.out # "return" THEN MyException("MyException", bkt.trace)
       ELSE IF fail = "list" THEN MyException("ClientError", t)
       ELSE LET file_objects == objects_filter(b, s3_key)
            IN Return(<<"bool", Len(file_objects) > 0>>, t)

\* Mutant: returns the first match whenever there is one.
get_file_object_first(b, filename, bucket_name, fail) ==
    LET bkt == get_bucket(bucket_name)
        t == <<<<"list", filename>>>>
    IN IF bkt.out # "return" THEN MyException("MyException", bkt.trace)
       ELSE IF fail = "list" THEN MyException("ClientError", t)
       ELSE LET matched == objects_filter(b, filename)
                file_objects == [i \in 1..Len(matched) |-> Ref(matched[i])]
            IN IF Len(file_objects) >= 1 THEN Return(file_objects[1], t)
               ELSE Return(<<"list", file_objects>>, t)

get_file_object(b, filename, bucket_name, fail) ==
    LET bkt == get_bucket(bucket_name)
        t == <<<<"list", filename>>>>
    IN IF bkt.out # "return" THEN MyException("MyException", bkt.trace)
       ELSE IF fail = "list" THEN MyException("ClientError", t)
       ELSE LET matched == objects_filter(b, filename)
                file_objects == [i \in 1..Len(matched) |-> Ref(matched[i])]
            IN IF Len(file_objects) = 1 THEN Return(file_objects[1], t)
               ELSE Return(<<"list", file_objects>>, t)

\* Mutant: a plain string is taken for the key of an object to fetch.
hasattr_get_or_str(object_name) == object_name[1] \in {"ref", "str"}

\* Only an object reference has a get attribute; strings, lists and None do not.
hasattr_get(object_name) == object_name[1] = "ref"

read_object(b, object_name, decode, make_readable, fail) ==
    IF hasattr_get(object_name)
    THEN LET key == object_name[2]
             t == <<<<"get", key>>>>
         IN IF fail = "get" \/ key \notin DOMAIN b
            THEN MyException("ClientError", t)
            ELSE LET obj_body == b[key]
                 IN IF decode /\ obj_body[1] = "pickle"
                    THEN MyException("UnicodeDecodeError", t)
                    ELSE IF make_readable
                    THEN IF decode THEN Return(<<"StringIO", obj_body>>, t)
                         ELSE MyException("TypeError", t)
                    ELSE Return(<<IF decode THEN "str" ELSE "bytes", obj_body>>, t)
    ELSE IF object_name[1] = "str"
    THEN MyException("MyException", NoRequest)
    ELSE MyException("MyException", NoRequest)

\* Mutant: the directory is joined even when none is given.
model_file_joined(model_name, model_dir) ==
    (IF model_dir = None THEN <<"N">> ELSE model_dir) \o <<"/">> \o model_name

\* f"{model_dir}/{model_name}" if model_dir else model_name: None and the
\* empty string are both falsy.
model_file(model_name, model_dir) ==
    IF model_dir # None /\ model_dir # <<>>
    THEN model_dir \o <<"/">> \o model_name
    ELSE model_name

load_model(b, model_name, bucket_name, model_dir, fail) ==
    LET fo == get_file_object(b, model_file(model_name, model_dir), bucket_name, fail)
    IN IF fo.out # "return" THEN MyException("MyException", fo.trace)
       ELSE LET ro == read_object(b, fo.res, FALSE, FALSE, fail)
                t == fo.trace \o ro.trace
            IN IF ro.out # "return" THEN MyException("MyException", t)
               ELSE LET model_obj_bytes == ro.res[2]
                        tl == t \o <<<<"loads", <<>>>>>>
                    IN IF fail = "loads" \/ model_obj_bytes[1] # "pickle"
                       THEN MyException("UnpicklingError", tl)
                       ELSE Return(<<"model", model_obj_bytes[2]>>, tl)

get_df_from_object(b, object_, fail) ==
    LET ro == read_object(b, object_, TRUE, TRUE, fail)
    IN IF ro.out # "return" THEN MyException("MyException", ro.trace)
       ELSE LET content == ro.res[2][2]
                t == ro.trace \o <<<<"read_csv", <<>>>>>>
            IN IF Len(content) = 0 THEN MyException("EmptyDataError", t)
               ELSE IF fail = "parse" THEN MyException("ParserError", t)
               ELSE Return(<<"DataFrame", pd_read_csv(content)>>, t)

read_csv(b, filename, bucket_name, fail) ==
    LET csv_obj == get_file_object(b, filename, bucket_name, fail)
    IN IF csv_obj.out # "return" THEN MyException("MyException", csv_obj.trace)
       ELSE LET df == get_df_from_object(b, csv_obj.res, fail)
                t == csv_obj.trace \o df.trace
            IN IF df.out # "return" THEN MyException("MyException", t)
               ELSE Return(df.res, t)

\* A call that changes state also gives the bucket and filesystem it leaves.
With(r, b, l) ==
    [out |-> r.out, res |-> r.res, trace |-> r.trace, bucket |-> b, local |-> l]

PyNone == <<"None">>

Put(f, k, v) == (k :> v) @@ f

Remove(f, k) == [x \in DOMAIN f \ {k} |-> f[x]]

\* s3_resource.Object(bucket_name, key).load(): "ok", a ClientError with its
\* status code, or an exception that is no ClientError (a connection error).
load(b, key, fail) ==
    IF fail = "probe403" THEN <<"ClientError", "403">>
    ELSE IF fail = "probeConn" THEN <<"EndpointConnectionError", "">>
    ELSE IF key \in DOMAIN b THEN <<"ok", "">>
    ELSE <<"ClientError", "404">>

\* Mutant: the marker is put without looking at the probe's answer.
create_folder_no_probe(b, l, folder_name, bucket_name, fail) ==
    LET folder_obj == folder_name \o <<"/">>
        tp == <<<<"head", folder_obj>>, <<"put", folder_obj>>>>
    IN IF fail = "put" THEN With(Unwrapped("ClientError", tp), b, l)
       ELSE With(Return(PyNone, tp), Put(b, folder_obj, EmptyBody), l)

\* Mutant: every ClientError of the probe is taken for "not found".
create_folder_any_code(b, l, folder_name, bucket_name, fail) ==
    LET folder_obj == folder_name \o <<"/">>
        th == <<<<"head", folder_obj>>>>
        tp == th \o <<<<"put", folder_obj>>>>
        e == load(b, folder_obj, fail)
    IN IF e[1] = "ok" THEN With(Return(PyNone, th), b, l)
       ELSE IF e[1] # "ClientError" THEN With(Unwrapped(e[1], th), b, l)
       ELSE With(Return(PyNone, tp), Put(b, folder_obj, EmptyBody), l)

\* The try covers the probe only and catches ClientError only; put_object
\* runs inside the handler.  put_object without a Body writes zero bytes.
create_folder(b, l, folder_name, bucket_name, fail) ==
    LET folder_obj == folder_name \o <<"/">>
        th == <<<<"head", folder_obj>>>>
        tp == th \o <<<<"put", folder_obj>>>>
        e == load(b, folder_obj, fail)
    IN IF e[1] = "ok" THEN With(Return(PyNone, th), b, l)
       ELSE IF e[1] # "ClientError" THEN With(Unwrapped(e[1], th), b, l)
       ELSE IF e[2] = "404"
       THEN IF fail = "put" THEN With(Unwrapped("ClientError", tp), b, l)
            ELSE With(Return(PyNone, tp), Put(b, folder_obj, EmptyBody), l)
       ELSE With(Return(PyNone, th), b, l)

\* The constructor raises when the resource is None, so a constructed
\* service always holds one.
s3_resource == <<"s3">>

\* Mutant: the remove flag is ignored and the file always deleted.
upload_file_always_remove(b, l, from_filename, to_filename, bucket_name, remove, fail) ==
    LET tu == <<<<"upload", to_filename>>>>
        tr == tu \o <<<<"remove", from_filename>>>>
    IN IF fail = "upload" \/ from_filename \notin DOMAIN l
       THEN With(MyException("S3UploadFailedError", tu), b, l)
       ELSE LET b2 == Put(b, to_filename, l[from_filename])
            IN IF fail = "remove" THEN With(MyException("OSError", tr), b2, l)
               ELSE With(Return(PyNone, tr), b2, Remove(l, from_filename))

\* Mutant: the file is deleted in a finally clause, whether or not the upload
\* succeeded.
upload_file_remove_finally(b, l, from_filename, to_filename, bucket_name, remove, fail) ==
    LET tu == <<<<"upload", to_filename>>>>
        tr == tu \o <<<<"remove", from_filename>>>>
        gone == IF remove /\ fail # "remove" THEN Remove(l, from_filename) ELSE l
    IN IF fail = "upload" \/ from_filename \notin DOMAIN l
       THEN With(MyException("S3UploadFailedError", tu), b, gone)
       ELSE LET b2 == Put(b, to_filename, l[from_filename])
            IN IF remove
               THEN IF fail = "remove" THEN With(MyException("OSError", tr), b2, l)
                    ELSE With(Return(PyNone, tr), b2, gone)
               ELSE With(Return(PyNone, tu), b2, l)

upload_file(b, l, from_filename, to_filename, bucket_name, remove, fail) ==
    LET tu == <<<<"upload", to_filename>>>>
        tr == tu \o <<<<"remove", from_filename>>>>
    IN IF s3_resource = None THEN With(MyException("MyException", NoRequest), b, l)
       ELSE IF from_filename \notin DOMAIN l
       THEN With(MyException("FileNotFoundError", tu), b, l)
       ELSE IF fail = "upload"
       THEN With(MyException("S3UploadFailedError", tu), b, l)
       ELSE LET b2 == Put(b, to_filename, l[from_filename])
            IN IF remove
               THEN IF fail = "remove" THEN With(MyException("OSError", tr), b2, l)
                    ELSE With(Return(PyNone, tr), b2, Remove(l, from_filename))
               ELSE With(Return(PyNone, tu), b2, l)

upload_df_as_csv(b, l, data_frame, local_filename, bucket_filename, bucket_name, fail) ==
    LET tc == <<<<"to_csv", local_filename>>>>
    IN IF fail = "to_csv" THEN With(MyException("OSError", tc), b, l)
       ELSE LET l2 == Put(l, local_filename, to_csv(data_frame))
                uf == upload_file(b, l2, local_filename, bucket_filename,
                                  bucket_name, TRUE, fail)
                t == tc \o uf.trace
            IN IF uf.out # "return"
               THEN With(MyException("MyException", t), uf.bucket, uf.local)
               ELSE With(Return(PyNone, t), uf.bucket, uf.local)

(* ------------------------------------------------------------------ *)
(* State machine                                                       *)
(* ------------------------------------------------------------------ *)

\* A CSV body as to_csv writes it, for the buckets of the initial states.
SampleCsv == Text(<<Header, <<"x">>>>)

InitBodies == {EmptyBody, AModel, SampleCsv}

\* last: the call made last (its method, arguments, the step that was made to
\* fail, its outcome, and the bucket and filesystem it started from).
\* prev: what the call before last was, when it was a create_folder in
\* which no step was made to fail (<<"create_folder", folder>>) or an
\* upload_df_as_csv that returned (<<"upload_df_as_csv", table, key>>); <<>>
\* otherwise.
Call(op, args, fail, r) ==
    [op |-> op, args |-> args, fail |-> fail, out |-> r.out, res |-> r.res,
     trace |-> r.trace, pre |-> bucket, preLocal |-> local]

NoCall == <<>>

Summary(c) ==
    IF c.op = "create_folder" /\ c.fail = "none"
    THEN <<"create_folder", c.args[1]>>
    ELSE IF c.op = "upload_df_as_csv" /\ c.out = "return"
    THEN <<"upload_df_as_csv", c.args[1], c.args[3]>>
    ELSE NoCall

\* Any bucket holding some of the given keys with the given bodies, the local
\* file present or not.
InitOver(keys, bodies) ==
    /\ \E S \in SUBSET keys : bucket \in [S -> bodies]
    /\ \E S \in SUBSET Paths : local \in [S -> {AModel}]
    /\ last = [op |-> "init", args |-> <<>>, fail |-> "none", out |-> "return",
               res |-> PyNone, trace |-> NoRequest, pre |-> bucket, preLocal |-> local]
    /\ prev = NoCall

\* Every bucket over the three keys and the three bodies.
InitAny == InitOver(InitKeys, InitBodies)

\* The buckets uploads start from.
Init == InitOver(UploadInitKeys, {AModel})

Do_get_bucket ==
    \E bucket_name \in BucketNames :
        /\ last' = Call("get_bucket", <<bucket_name>>, "none", get_bucket(bucket_name))
        /\ prev' = Summary(last)
        /\ UNCHANGED <<bucket, local>>

Do_s3_key_path_available ==
    \E bucket_name \in BucketNames, s3_key \in Prefixes, fail \in {"none", "list"} :
        /\ last' = Call("s3_key_path_available", <<bucket_name, s3_key>>, fail,
                        s3_key_path_available(bucket, bucket_name, s3_key, fail))
        /\ prev' = Summary(last)
        /\ UNCHANGED <<bucket, local>>

Do_get_file_object ==
    \E filename \in Prefixes, bucket_name \in BucketNames, fail \in {"none", "list"} :
        /\ last' = Call("get_file_object", <<filename, bucket_name>>, fail,
                        get_file_object(bucket, filename, bucket_name, fail))
        /\ prev' = Summary(last)
        /\ UNCHANGED <<bucket, local>>

\* What callers hand to read_object and get_df_from_object: a reference, a
\* plain string, None, or a list as get_file_object returns it.
Lists == {<<"list", <<>>>>, <<"list", <<Ref(KeyA), Ref(KeyADir)>>>>}
References == {Ref(k) : k \in {KeyA, KeyAB, KeyB}}
Objects == References \cup {<<"str", KeyA>>, PyNone} \cup Lists

\* The steps of a read that can be made to fail: a request is only made for
\* a reference.
ReadFails(object_name) == IF hasattr_get(object_name) THEN {"none", "get"} ELSE {"none"}

Do_read_object ==
    \E object_name \in Objects, decode \in BOOLEAN, make_readable \in BOOLEAN :
        \E fail \in ReadFails(object_name) :
            /\ last' = Call("read_object", <<object_name, decode, make_readable>>, fail,
                            read_object(bucket, object_name, decode, make_readable, fail))
            /\ prev' = Summary(last)
            /\ UNCHANGED <<bucket, local>>

Do_load_model ==
    \E model_name \in ModelNames, model_dir \in ModelDirs,
       fail \in {"none", "list", "get", "loads"} :
        /\ last' = Call("load_model", <<model_name, TheBucket, model_dir>>, fail,
                        load_model(bucket, model_name, TheBucket, model_dir, fail))
        /\ prev' = Summary(last)
        /\ UNCHANGED <<bucket, local>>

Do_create_folder ==
    \E folder_name \in FolderNames, fail \in {"none", "probe403", "probeConn", "put"} :
        LET r == create_folder(bucket, local, folder_name, TheBucket, fail)
        IN /\ last' = Call("create_folder", <<folder_name, TheBucket>>, fail, r)
           /\ prev' = Summary(last)
           /\ bucket' = r.bucket
           /\ local' = r.local

Do_upload_file ==
    \E from_filename \in Paths, to_filename \in UploadKeys, remove \in BOOLEAN,
       fail \in {"none", "upload", "remove"} :
        LET r == upload_file(bucket, local, from_filename, to_filename, TheBucket,
                             remove, fail)
        IN /\ last' = Call("upload_file",
                           <<from_filename, to_filename, TheBucket, remove>>, fail, r)
           /\ prev' = Summary(last)
           /\ bucket' = r.bucket
           /\ local' = r.local

Do_upload_df_as_csv ==
    \E data_frame \in Tables, local_filename \in Paths, bucket_filename \in UploadKeys,
       fail \in {"none", "to_csv", "upload", "remove"} :
        LET r == upload_df_as_csv(bucket, local, data_frame, local_filename,
                                  bucket_filename, TheBucket, fail)
        IN /\ last' = Call("upload_df_as_csv",
                           <<data_frame, local_filename, bucket_filename, TheBucket>>,
                           fail, r)
           /\ prev' = Summary(last)
           /\ bucket' = r.bucket
           /\ local' = r.local

Do_get_df_from_object ==
    \E object_ \in Objects :
        \E fail \in ReadFails(object_) \cup {"parse"} :
            /\ last' = Call("get_df_from_object", <<object_>>, fail,
                            get_df_from_object(bucket, object_, fail))
            /\ prev' = Summary(last)
            /\ UNCHANGED <<bucket, local>>

Do_read_csv ==
    \E filename \in Prefixes, fail \in {"none", "list", "get", "parse"} :
        /\ last' = Call("read_csv", <<filename, TheBucket>>, fail,
                        read_csv(bucket, filename, TheBucket, fail))
        /\ prev' = Summary(last)
        /\ UNCHANGED <<bucket, local>>

\* The whole service.
Next ==
    \/ Do_get_bucket
    \/ Do_s3_key_path_available
    \/ Do_get_file_object
    \/ Do_read_object
    \/ Do_load_model
    \/ Do_create_folder
    \/ Do_upload_file
    \/ Do_upload_df_as_csv
    \/ Do_get_df_from_object
    \/ Do_read_csv

Spec == Init /\ [][Next]_vars

\* The methods that only read, over every initial bucket.
NextRead ==
    \/ Do_get_bucket
    \/ Do_s3_key_path_available
    \/ Do_get_file_object
    \/ Do_read_object
    \/ Do_load_model
    \/ Do_get_df_from_object
    \/ Do_read_csv

SpecRead == InitAny /\ [][NextRead]_vars

\* Folder markers: create_folder, and the probe for what is under a prefix.
NextFolder ==
    \/ Do_create_folder
    \/ Do_s3_key_path_available

SpecFolder == InitAny /\ [][NextFolder]_vars

\* Uploads and reading back what was uploaded.
NextUpload ==
    \/ Do_upload_file
    \/ Do_upload_df_as_csv
    \/ Do_read_csv

SpecUpload == Init /\ [][NextUpload]_vars

(* ------------------------------------------------------------------ *)
(* Properties                                                          *)
(* ------------------------------------------------------------------ *)

\* p is an initial segment of k.
HasPrefix(k, p) == \E i \in 0..Len(k) : SubSeq(k, 1, i) = p

\* The stored keys of b that start with p.
Matching(b, p) == {k \in DOMAIN b : HasPrefix(k, p)}

Made(kind) == \E i \in 1..Len(last.trace) : last.trace[i][1] = kind

\* C1: a get_file_object that returns gives a bare reference exactly when one
\* stored key starts with the given key, and that reference is the match; in
\* every other case it gives a list holding each matching object once and
\* nothing else.
C1_GetObjectOrList ==
    (last.op = "get_file_object" /\ last.out = "return") =>
        LET m == Matching(last.pre, last.args[1])
        IN /\ (last.res[1] = "ref") <=> (Cardinality(m) = 1)
           /\ last.res[1] = "ref" => last.res[2] \in m
           /\ last.res[1] # "ref" =>
                /\ last.res[1] = "list"
                /\ Len(last.res[2]) = Cardinality(m)
                /\ {last.res[2][i] : i \in 1..Len(last.res[2])} = {Ref(k) : k \in m}

\* A bare reference was returned from a bucket that also holds keys that do
\* not match.
C1_Witness ==
    /\ last.op = "get_file_object" /\ last.out = "return"
    /\ last.res[1] = "ref"
    /\ Cardinality(DOMAIN last.pre) = 3

\* C7: an s3_key_path_available that returns gives true exactly when a stored
\* key starts with the prefix, and the call leaves the bucket as it was.
C7_ExistsUnderPrefix ==
    last.op = "s3_key_path_available" =>
        /\ bucket = last.pre
        /\ last.out = "return" =>
             last.res = <<"bool", \E k \in DOMAIN last.pre : HasPrefix(k, last.args[2])>>

\* True was returned for a prefix that exactly one of several stored keys has.
C7_Witness ==
    /\ last.op = "s3_key_path_available" /\ last.out = "return"
    /\ last.res = <<"bool", TRUE>>
    /\ Cardinality(Matching(last.pre, last.args[2])) = 1
    /\ Cardinality(DOMAIN last.pre) = 3

\* C6: read_object on an argument that is no object reference (a string, a
\* list, None) raises the wrapped argument error and makes no request.
C6_ReadObjectNonReference ==
    (last.op = "read_object" /\ last.args[1][1] # "ref") =>
        /\ last.out = "MyException"
        /\ last.res = <<"cause", "MyException">>
        /\ last.trace = NoRequest

\* read_object was handed the list get_file_object returns for several matches.
C6_Witness ==
    /\ last.op = "read_object"
    /\ last.args[1] = <<"list", <<Ref(KeyA), Ref(KeyADir)>>>>
    /\ last.out = "MyException"

\* The key load_model is to resolve: the directory, a slash and the name when
\* a directory is given (a non-empty string), the name alone otherwise.
ModelKey(name, dir) == IF dir \in {None, <<>>} THEN name ELSE dir \o <<"/">> \o name

\* C8: load_model lists under the resolved key, and when the stored keys that
\* start with it are not exactly one it raises the wrapped error without
\* fetching a body and without deserializing.
C8_LoadModel ==
    last.op = "load_model" =>
        LET key == ModelKey(last.args[1], last.args[3])
        IN /\ Len(last.trace) >= 1
           /\ last.trace[1] = <<"list", key>>
           /\ Cardinality(Matching(last.pre, key)) # 1 =>
                /\ last.out = "MyException"
                /\ ~Made("get")
                /\ ~Made("loads")

\* load_model without a directory found several objects under the key.
C8_Witness ==
    /\ last.op = "load_model" /\ last.fail = "none"
    /\ last.args[3] = None
    /\ Cardinality(Matching(last.pre, ModelKey(last.args[1], last.args[3]))) >= 2
    /\ last.out = "MyException"

\* The marker key of a folder.
Marker(folder) == folder \o <<"/">>

\* b and c hold the same objects except, possibly, under key k.
SameExcept(b, c, k) ==
    /\ DOMAIN b \ {k} = DOMAIN c \ {k}
    /\ \A x \in DOMAIN b \ {k} : b[x] = c[x]

FolderCall == last.op = "create_folder"

\* C4: a create_folder whose requests are answered returns, leaves one object
\* under the marker key (a zero-byte one when there was none, the stored one
\* untouched otherwise) and adds or removes no other key; called again right
\* after, for the same folder, it returns and leaves the bucket as it was.
C4_CreateFolderIdempotent ==
    (FolderCall /\ last.fail = "none") =>
        LET k == Marker(last.args[1])
        IN /\ last.out = "return"
           /\ Cardinality({x \in DOMAIN bucket : x = k}) = 1
           /\ SameExcept(bucket, last.pre, k)
           /\ bucket[k] = IF k \in DOMAIN last.pre THEN last.pre[k] ELSE EmptyBody
           /\ prev = <<"create_folder", last.args[1]>> => bucket = last.pre

\* The second of two create_folder calls for a folder that had no marker
\* before the first.
C4_Witness ==
    /\ FolderCall /\ last.fail = "none"
    /\ prev = <<"create_folder", last.args[1]>>
    /\ last.args[1] = KeyB
    /\ last.out = "return"
    /\ last.pre[Marker(KeyB)] = EmptyBody

ProbeFailed == last.fail \in {"probe403", "probeConn"}

C3_AllFailuresWrapped == last.out \in {"return", "MyException"}

\* The SDK upload of the last upload_file was made and succeeded: the call
\* returned, or it failed at a later step (the deletion).
UploadSucceeded ==
    /\ Made("upload")
    /\ last.out = "return" \/ last.trace[Len(last.trace)][1] # "upload"

\* The object stored under key k is the content the local file f had when
\* the call began.
Uploaded(k, f) == k \in DOMAIN bucket /\ bucket[k] = last.preLocal[f]

\* C5: after an upload_file whose SDK upload succeeded the object is in the
\* bucket under the target key, with remove false the call returns and the
\* local file exists, and with remove true the local file is gone when the
\* call returns; only a deletion that itself fails leaves the file, and then
\* the call raises the wrapped error.
C5_UploadFileRemove ==
    (last.op = "upload_file" /\ UploadSucceeded) =>
        /\ Uploaded(last.args[2], last.args[1])
        /\ ~last.args[4] => (last.out = "return" /\ local = last.preLocal)
        /\ (last.args[4] /\ last.out = "return") => last.args[1] \notin DOMAIN local
        /\ (last.args[4] /\ last.out # "return") =>
             (last.fail = "remove" /\ last.out = "MyException" /\ local = last.preLocal)

\* An upload with remove true returned, replaced what the key held and
\* deleted the file.
C5_Witness ==
    /\ last.op = "upload_file" /\ last.out = "return"
    /\ last.args[4]
    /\ last.args[2] \in DOMAIN last.pre
    /\ last.pre[last.args[2]] # bucket[last.args[2]]
    /\ last.args[1] \in DOMAIN last.preLocal
    /\ last.args[1] \notin DOMAIN local

\* The SDK upload of the last call was made and failed.
UploadFailed ==
    /\ last.out # "return"
    /\ Len(last.trace) >= 1
    /\ last.trace[Len(last.trace)][1] = "upload"

\* The path of the local file the last upload call sends.
SourcePath == IF last.op = "upload_file" THEN last.args[1] ELSE last.args[2]

TargetKey == IF last.op = "upload_file" THEN last.args[2] ELSE last.args[3]

RemoveAt(i) == i \in 1..Len(last.trace) /\ last.trace[i][1] = "remove"

\* C10: in upload_file and upload_df_as_csv the deletion comes only after a
\* successful upload.  When the upload fails the caller gets the wrapped
\* error, the bucket is as it was and the source file is in place (the file
\* the caller named for upload_file, the CSV just written for
\* upload_df_as_csv).  A deletion is only attempted right after the upload,
\* and a source file (one that existed, or the CSV once written) that is gone
\* after the call is in the bucket under the target key.
C10_DeleteOnlyAfterUpload ==
    last.op \in {"upload_file", "upload_df_as_csv"} =>
        /\ UploadFailed =>
             /\ last.out = "MyException"
             /\ bucket = last.pre
             /\ last.op = "upload_file" => local = last.preLocal
             /\ last.op = "upload_df_as_csv" =>
                  /\ SourcePath \in DOMAIN local
                  /\ local[SourcePath] = to_csv(last.args[1])
        /\ \A i \in 1..Len(last.trace) :
             RemoveAt(i) => (i > 1 /\ last.trace[i - 1] = <<"upload", TargetKey>>)
        /\ (SourcePath \notin DOMAIN local /\ last.op = "upload_df_as_csv"
              /\ Made("upload")) =>
             (TargetKey \in DOMAIN bucket /\ bucket[TargetKey] = to_csv(last.args[1]))
        /\ (SourcePath \notin DOMAIN local /\ SourcePath \in DOMAIN last.preLocal
              /\ last.op = "upload_file") => Uploaded(TargetKey, SourcePath)

\* The upload of a table failed and left the CSV file on disk.
C10_Witness ==
    /\ last.op = "upload_df_as_csv" /\ UploadFailed
    /\ SourcePath \notin DOMAIN last.preLocal
    /\ SourcePath \in DOMAIN local

\* The table the round trip is to give back: T with the cells "na" missing.
ReadBack(t) ==
    [cols |-> t.cols,
     rows |-> [i \in 1..Len(t.rows) |->
                 [j \in 1..Len(t.rows[i]) |->
                    IF t.rows[i][j] = Str("na") THEN NaN ELSE t.rows[i][j]]]]

\* C2: a read_csv of key K in which no request fails, made right after an
\* upload_df_as_csv of table T to K that returned, returns T with the cells
\* "na" missing.
C2_RoundTrip ==
    (/\ last.op = "read_csv" /\ last.fail = "none"
     /\ Len(prev) = 3 /\ prev[1] = "upload_df_as_csv"
     /\ prev[3] = last.args[1]) =>
        /\ last.out = "return"
        /\ last.res = <<"DataFrame", ReadBack(prev[2])>>

====
